---- MODULE Spec2Model ----
(***************************************************************************)
(* The lending ledger of the library management system: the books, users   *)
(* and transactions collections of the MongoDB database, and the request   *)
(* handlers that read and write them.  Every pymongo call is one atomic    *)
(* step; the handlers of concurrent requests interleave between calls.     *)
(***************************************************************************)
EXTENDS Integers, Sequences, FiniteSets, TLC

\* ------------------------------------------------------------ configuration
MAX_BOOKS_PER_USER == 5
DEFAULT_ISSUE_DAYS == 14
FINE_PER_DAY == 5
\* get_all_transactions(mongo, status=None, skip=0, limit=20)
TRANSACTIONS_LIMIT == 20
\* def get_available_books(mongo, skip=0, limit=12)
AVAILABLE_LIMIT == 12

\* ------------------------------------------------------------------ bounds
\* The clock counts ticks; TicksPerDay ticks make one day (timedelta.days
\* drops the fraction of a day).
TicksPerDay == 2
\* The latest instant of the clock is MaxLate ticks after the first due date.
MaxLate == 12
\* The ledger holds at most MaxTxns entries (SpecLimit: MaxTxnsLimit,
\* SpecFines: MaxTxnsFines).
MaxTxns == 2
MaxTxnsLimit == 6
MaxTxnsFines == 1
\* SpecQueries: the clock's latest instant is MaxLateQuery ticks after the
\* first due date.
MaxLateQuery == 3
\* A book is catalogued or edited with at most MaxQuantity copies.
MaxQuantity == 2

Threads == {1, 2}
BookIds == {1, 2}
Isbns == {"isbn-a", "isbn-b"}
\* An identity no document has: find_one returns None for it.
NoSuchId == 0
\* return_date of an entry that is still open.
NoDate == -1
\* The quantity field of the edit form left empty.
Blank == -1

LoanTicks == DEFAULT_ISSUE_DAYS * TicksPerDay
Instants == {0} \cup {LoanTicks + k : k \in 0..MaxLate}
\* Two issue instants one tick apart, so that two entries differ in due_date.
QueryInstants == {0, 1} \cup {LoanTicks + k : k \in 0..MaxLateQuery}
\* The status filter of a query; "" is status=None.
StatusFilters == {"", "issued", "returned"}
\* Titles an admin types into the book form ('title' is a required field).
Titles == {"title-a", "title-b"}

VARIABLES
    books,         \* db.books: _id -> document
    users,         \* db.users: _id -> document
    transactions,  \* db.transactions: sequence of documents, _id = index
    now,           \* datetime.utcnow(), in ticks
    req            \* per worker thread: the request it is handling

vars == <<books, users, transactions, now, req>>

\* ---------------------------------------------------------------- documents
NoBook == [found |-> FALSE, quantity |-> 0, available_quantity |-> 0]
NoTxn == [found |-> FALSE, user_id |-> NoSuchId, book_id |-> NoSuchId,
          due_date |-> 0, status |-> "none"]

\* The locals of a handler; a thread that handles no request holds IdleReq.
IdleReq ==
    [op |-> "none", pc |-> "idle",
     user_id |-> NoSuchId, book_id |-> NoSuchId, transaction_id |-> NoSuchId,
     new_quantity |-> 0, isbn |-> "", title |-> "", new_status |-> FALSE,
     book |-> NoBook, transaction |-> NoTxn,
     issue_date |-> 0, due_date |-> 0, return_date |-> NoDate,
     current_issued |-> 0, fine |-> 0, days_overdue |-> 0,
     inserted_id |-> NoSuchId,
     status |-> "",     \* the status filter of a query
     result |-> <<>>,   \* the list a query returns
     effects |-> {},    \* the writes this call has applied so far
     raised |-> FALSE,  \* `except Exception` was entered ("Error ...: " printed)
     ret |-> "pending"]

\* mongo.db.books.find_one({'_id': ObjectId(book_id)})
FindBook(book_id) ==
    IF book_id \in DOMAIN books
    THEN [found |-> TRUE, quantity |-> books[book_id].quantity,
          available_quantity |-> books[book_id].available_quantity]
    ELSE NoBook

\* mongo.db.transactions.find_one({'_id': ObjectId(transaction_id)})
FindTxn(transaction_id) ==
    IF transaction_id \in DOMAIN transactions
    THEN [found |-> TRUE,
          user_id |-> transactions[transaction_id].user_id,
          book_id |-> transactions[transaction_id].book_id,
          due_date |-> transactions[transaction_id].due_date,
          status |-> transactions[transaction_id].status]
    ELSE NoTxn

\* count_documents({'user_id': user_id, 'status': 'issued'})
CountIssued(user_id) ==
    Cardinality({i \in DOMAIN transactions :
                   /\ transactions[i].user_id = user_id
                   /\ transactions[i].status = "issued"})

\* The availability check with `< 0` for `<= 0`.
BookUnavailableOffByOne(book) == ~book.found \/ book.available_quantity < 0

\* if not book or book.get('available_quantity', 0) <= 0: return None
BookUnavailable(book) == ~book.found \/ book.available_quantity <= 0

\* The limit check with `>` for `>=`.
LimitReachedOffByOne(current_issued) == current_issued > MAX_BOOKS_PER_USER

\* if current_issued >= Config.MAX_BOOKS_PER_USER: return None
LimitReached(current_issued) == current_issued >= MAX_BOOKS_PER_USER

\* fine = 0.0; if return_date > due_date: days_overdue = (..).days; fine = ..
DaysOverdue(return_date, due_date) ==
    IF return_date > due_date THEN (return_date - due_date) \div TicksPerDay ELSE 0

\* ComputeFine counting a begun day as a whole day.
ComputeFineRoundUp(return_date, due_date) ==
    IF return_date > due_date
    THEN ((return_date - due_date + TicksPerDay - 1) \div TicksPerDay) * FINE_PER_DAY
    ELSE 0

ComputeFine(return_date, due_date) ==
    IF return_date > due_date
    THEN ((return_date - due_date) \div TicksPerDay) * FINE_PER_DAY
    ELSE 0

\* NotIssued without the test of the status.
NotIssuedFoundOnly(transaction) == ~transaction.found

\* if not transaction or transaction.get('status') != 'issued': return None
NotIssued(transaction) == ~transaction.found \/ transaction.status # "issued"

\* EditedAvailable putting every copy back on the shelf.
EditedAvailableReset(book, new_quantity) == new_quantity

\* update_data['available_quantity'] = book['available_quantity'] + quantity_diff
EditedAvailable(book, new_quantity) ==
    book.available_quantity + (new_quantity - book.quantity)

\* get_all_transactions(mongo, status='issued'): find(query).skip(0).limit(20)
\* .sort('issue_date', -1) is the first `limit` entries in descending
\* issue_date; entries of equal issue_date come in either order.
IssuedIds == {i \in DOMAIN transactions : transactions[i].status = "issued"}

IssuedPages ==
    LET Newer(i) == {j \in IssuedIds :
                       transactions[j].issue_date > transactions[i].issue_date}
        Same(i) == {j \in IssuedIds :
                       transactions[j].issue_date = transactions[i].issue_date}
        \* on the page whatever the order of equal dates
        sure == {i \in IssuedIds :
                   Cardinality(Newer(i)) + Cardinality(Same(i)) <= TRANSACTIONS_LIMIT}
        \* of the issue_date at which the page ends
        tied == {i \in IssuedIds \ sure : Cardinality(Newer(i)) < TRANSACTIONS_LIMIT}
    IN {sure \cup some :
          some \in {x \in SUBSET tied :
                      Cardinality(x) = (IF tied = {} THEN 0
                                        ELSE TRANSACTIONS_LIMIT - Cardinality(sure))}}

\* ------------------------------------------------------------------ queries
\* CurrentFine counting a begun day as a whole day.
CurrentFineRoundUp(trans, at) ==
    IF trans.status = "issued" /\ at > trans.due_date
    THEN ((at - trans.due_date + TicksPerDay - 1) \div TicksPerDay) * FINE_PER_DAY
    ELSE 0

\* if trans['status'] == 'issued' and datetime.utcnow() > trans['due_date']:
\*     days_overdue = (datetime.utcnow() - trans['due_date']).days
\*     trans['current_fine'] = days_overdue * Config.FINE_PER_DAY
\* else: trans['current_fine'] = 0.0
CurrentFine(trans, at) ==
    IF trans.status = "issued" /\ at > trans.due_date
    THEN ((at - trans.due_date) \div TicksPerDay) * FINE_PER_DAY
    ELSE 0

\* OverdueDays counting a begun day as a whole day.
OverdueDaysRoundUp(trans, at) ==
    (at - trans.due_date + TicksPerDay - 1) \div TicksPerDay

\* days_overdue = (datetime.utcnow() - trans['due_date']).days
OverdueDays(trans, at) == (at - trans.due_date) \div TicksPerDay

\* trans['current_fine'] = days_overdue * Config.FINE_PER_DAY
OverdueFine(trans, at) == OverdueDays(trans, at) * FINE_PER_DAY

\* UserQueryIds without the status condition.
UserQueryIdsAnyStatus(user_id, status) ==
    {i \in DOMAIN transactions : transactions[i].user_id = user_id}

\* query = {'user_id': ObjectId(user_id)}; if status: query['status'] = status
UserQueryIds(user_id, status) ==
    {i \in DOMAIN transactions :
        /\ transactions[i].user_id = user_id
        /\ status = "" \/ transactions[i].status = status}

\* query = {}; if status: query['status'] = status
AllQueryIds(status) ==
    {i \in DOMAIN transactions : status = "" \/ transactions[i].status = status}

\* OverdueIds with $lte in place of $lt.
OverdueIdsInclusive(at) ==
    {i \in DOMAIN transactions :
        transactions[i].status = "issued" /\ transactions[i].due_date <= at}

\* {'status': 'issued', 'due_date': {'$lt': datetime.utcnow()}}
OverdueIds(at) ==
    {i \in DOMAIN transactions :
        transactions[i].status = "issued" /\ transactions[i].due_date < at}

\* The orders a cursor can deliver the entries S in.
Orderings(S) ==
    {s \in [1..Cardinality(S) -> S] :
        \A i, j \in 1..Cardinality(S) : i # j => s[i] # s[j]}

\* find(query).skip(0).limit(limit).sort('issue_date', -1): the sort comes
\* first, entries of equal issue_date in either order, then the limit.
NewestFirst(S, limit) ==
    {SubSeq(s, 1, IF Len(s) < limit THEN Len(s) ELSE limit) :
        s \in {o \in Orderings(S) :
                 \A i, j \in DOMAIN o :
                     i < j => transactions[o[i]].issue_date
                                  >= transactions[o[j]].issue_date}}

\* find(query).sort('due_date', 1), entries of equal due_date in either order.
DueFirst(S) ==
    {o \in Orderings(S) :
        \A i, j \in DOMAIN o :
            i < j => transactions[o[i]].due_date <= transactions[o[j]].due_date}

\* trans['book'] = mongo.db.books.find_one({'_id': trans['book_id']})
JoinBook(book_id) ==
    IF book_id \in DOMAIN books THEN books[book_id] ELSE [found |-> FALSE]

\* count_documents(query): query['user_id'] when user_id is given (NoSuchId
\* stands for None), query['status'] when status is given.
CountQuery(user_id, status) ==
    Cardinality({i \in DOMAIN transactions :
        /\ user_id = NoSuchId \/ transactions[i].user_id = user_id
        /\ status = "" \/ transactions[i].status = status})

\* {'is_active': True, 'available_quantity': {'$gt': 0}}
AvailableIds ==
    {b \in DOMAIN books : books[b].is_active /\ books[b].available_quantity > 0}

\* The place of a title in ascending order.
TitleRank(title) == IF title = "title-a" THEN 1 ELSE 2

\* find(...).skip(0).limit(limit).sort('title', 1)
TitleFirst(S, limit) ==
    {SubSeq(s, 1, IF Len(s) < limit THEN Len(s) ELSE limit) :
        s \in {o \in Orderings(S) :
                 \A i, j \in DOMAIN o :
                     i < j => TitleRank(books[o[i]].title)
                                  <= TitleRank(books[o[j]].title)}}

\* The _id the next inserted book gets.
NewBookId ==
    CHOOSE id \in BookIds \ DOMAIN books :
        \A other \in BookIds \ DOMAIN books : id <= other

\* ------------------------------------------------------------------ helpers
Pc(t) == req[t].pc

\* The handler of thread t moves on with its locals changed to r.
Goto(t, r) == req' = [req EXCEPT ![t] = r]

\* The handler of thread t returns `ret`.
Return(t, ret) == req' = [req EXCEPT ![t].pc = "done", ![t].ret = ret]

\* Entries that in-flight issue_book calls have still to insert.
PendingInserts ==
    Cardinality({t \in Threads :
        req[t].pc \in {"issue_find_book", "issue_find_user", "issue_count", "issue_insert"}})

\* Books that in-flight create_book calls have still to insert.
PendingCreates ==
    Cardinality({t \in Threads : req[t].pc \in {"create_find_isbn", "create_insert"}})

\* ------------------------------------------------------ admin route issue_book
\* POST /issue-book: user_id and book_id are the stripped form fields, Blank
\* when the field is missing or empty.
IssueFormPost(t, user_id, book_id, cap) ==
    /\ Pc(t) = "idle"
    /\ Len(transactions) + PendingInserts < cap
    /\ Goto(t, [IdleReq EXCEPT !.op = "issue_book", !.pc = "issue_validate",
                               !.user_id = user_id, !.book_id = book_id])
    /\ UNCHANGED <<books, users, transactions, now>>

\* IssueValidate looking at user_id only.
IssueValidateUserOnly(t) ==
    /\ Pc(t) = "issue_validate"
    /\ IF req[t].user_id = Blank
       THEN Return(t, "invalid")
       ELSE Goto(t, [req[t] EXCEPT !.pc = "issue_find_book"])
    /\ UNCHANGED <<books, users, transactions, now>>

\* if not user_id or not book_id: flash(...); return redirect(...)
IssueValidate(t) ==
    /\ Pc(t) = "issue_validate"
    /\ IF req[t].user_id = Blank \/ req[t].book_id = Blank
       THEN Return(t, "invalid")
       ELSE Goto(t, [req[t] EXCEPT !.pc = "issue_find_book"])
    /\ UNCHANGED <<books, users, transactions, now>>

\* ------------------------------------------------------- Transaction.issue_book
IssueRequest(t, user_id, book_id, cap) ==
    /\ Pc(t) = "idle"
    /\ Len(transactions) + PendingInserts < cap
    /\ Goto(t, [IdleReq EXCEPT !.op = "issue_book", !.pc = "issue_find_book",
                               !.user_id = user_id, !.book_id = book_id])
    /\ UNCHANGED <<books, users, transactions, now>>

\* IssueFindBook waiting until no other thread is inside a handler.
IssueFindBookLocked(t) ==
    /\ Pc(t) = "issue_find_book"
    /\ \A other \in Threads \ {t} : Pc(other) \in {"idle", "done"}
    /\ LET book == FindBook(req[t].book_id) IN
         IF BookUnavailable(book)
         THEN Goto(t, [req[t] EXCEPT !.book = book, !.pc = "done", !.ret = "None"])
         ELSE Goto(t, [req[t] EXCEPT !.book = book, !.pc = "issue_find_user"])
    /\ UNCHANGED <<books, users, transactions, now>>

IssueFindBook(t) ==
    /\ Pc(t) = "issue_find_book"
    /\ LET book == FindBook(req[t].book_id) IN
         IF BookUnavailable(book)
         THEN Goto(t, [req[t] EXCEPT !.book = book, !.pc = "done", !.ret = "None"])
         ELSE Goto(t, [req[t] EXCEPT !.book = book, !.pc = "issue_find_user"])
    /\ UNCHANGED <<books, users, transactions, now>>

IssueFindUser(t) ==
    /\ Pc(t) = "issue_find_user"
    /\ IF req[t].user_id \notin DOMAIN users
       THEN Return(t, "None")
       ELSE Goto(t, [req[t] EXCEPT !.pc = "issue_count"])
    /\ UNCHANGED <<books, users, transactions, now>>

\* IssueCount with the due date set to the issue date.
IssueCountDueNow(t) ==
    /\ Pc(t) = "issue_count"
    /\ LET current_issued == CountIssued(req[t].user_id) IN
         IF LimitReached(current_issued)
         THEN Goto(t, [req[t] EXCEPT !.current_issued = current_issued,
                                     !.pc = "done", !.ret = "None"])
         ELSE Goto(t, [req[t] EXCEPT !.current_issued = current_issued,
                                     !.pc = "issue_insert",
                                     !.issue_date = now,
                                     !.due_date = now])
    /\ UNCHANGED <<books, users, transactions, now>>

IssueCount(t) ==
    /\ Pc(t) = "issue_count"
    /\ LET current_issued == CountIssued(req[t].user_id) IN
         IF LimitReached(current_issued)
         THEN Goto(t, [req[t] EXCEPT !.current_issued = current_issued,
                                     !.pc = "done", !.ret = "None"])
         ELSE Goto(t, [req[t] EXCEPT !.current_issued = current_issued,
                                     !.pc = "issue_insert",
                                     !.issue_date = now,
                                     !.due_date = now + LoanTicks])
    /\ UNCHANGED <<books, users, transactions, now>>

\* IssueInsert putting the new entry in the place of the ledger.
IssueInsertReplacing(t) ==
    /\ Pc(t) = "issue_insert"
    /\ transactions' =
           <<[user_id |-> req[t].user_id, book_id |-> req[t].book_id,
              issue_date |-> req[t].issue_date, due_date |-> req[t].due_date,
              return_date |-> NoDate, status |-> "issued", fine |-> 0]>>
    /\ Goto(t, [req[t] EXCEPT !.pc = "issue_update_book",
                              !.inserted_id = 1,
                              !.effects = {"entry"}])
    /\ UNCHANGED <<books, users, now>>

IssueInsert(t) ==
    /\ Pc(t) = "issue_insert"
    /\ transactions' = Append(transactions,
           [user_id |-> req[t].user_id, book_id |-> req[t].book_id,
            issue_date |-> req[t].issue_date, due_date |-> req[t].due_date,
            return_date |-> NoDate, status |-> "issued", fine |-> 0])
    /\ Goto(t, [req[t] EXCEPT !.pc = "issue_update_book",
                              !.inserted_id = Len(transactions) + 1,
                              !.effects = {"entry"}])
    /\ UNCHANGED <<books, users, now>>

\* IssueUpdateBook without the total_issued increment.
IssueUpdateBookNoTotal(t) ==
    /\ Pc(t) = "issue_update_book"
    /\ books' = [b \in DOMAIN books |->
                   IF b = req[t].book_id
                   THEN [books[b] EXCEPT !.available_quantity = @ - 1]
                   ELSE books[b]]
    /\ Goto(t, [req[t] EXCEPT !.pc = "issue_update_user",
                              !.effects = @ \cup {"book"}])
    /\ UNCHANGED <<users, transactions, now>>

IssueUpdateBook(t) ==
    /\ Pc(t) = "issue_update_book"
    /\ books' = [b \in DOMAIN books |->
                   IF b = req[t].book_id
                   THEN [books[b] EXCEPT !.available_quantity = @ - 1,
                                         !.total_issued = @ + 1]
                   ELSE books[b]]
    /\ Goto(t, [req[t] EXCEPT !.pc = "issue_update_user",
                              !.effects = @ \cup {"book"}])
    /\ UNCHANGED <<users, transactions, now>>

\* IssueUpdateUser with an update that matches every member.
IssueUpdateUserAll(t) ==
    /\ Pc(t) = "issue_update_user"
    /\ users' = [u \in DOMAIN users |-> [users[u] EXCEPT !.books_issued = @ + 1]]
    /\ Goto(t, [req[t] EXCEPT !.pc = "done", !.ret = "ok",
                              !.effects = @ \cup {"user"}])
    /\ UNCHANGED <<books, transactions, now>>

IssueUpdateUser(t) ==
    /\ Pc(t) = "issue_update_user"
    /\ users' = [u \in DOMAIN users |->
                   IF u = req[t].user_id
                   THEN [users[u] EXCEPT !.books_issued = @ + 1]
                   ELSE users[u]]
    /\ Goto(t, [req[t] EXCEPT !.pc = "done", !.ret = "ok",
                              !.effects = @ \cup {"user"}])
    /\ UNCHANGED <<books, transactions, now>>

\* ------------------------------------------------------ Transaction.return_book
ReturnRequest(t, transaction_id) ==
    /\ Pc(t) = "idle"
    /\ Goto(t, [IdleReq EXCEPT !.op = "return_book", !.pc = "return_find",
                               !.transaction_id = transaction_id])
    /\ UNCHANGED <<books, users, transactions, now>>

\* ReturnFind refusing the return when the entry's book has been soft-deleted
\* or its member deactivated.
ReturnFindActiveOnly(t) ==
    /\ Pc(t) = "return_find"
    /\ LET transaction == FindTxn(req[t].transaction_id) IN
         IF \/ NotIssued(transaction)
            \/ ~books[transaction.book_id].is_active
            \/ ~users[transaction.user_id].is_active
         THEN Goto(t, [req[t] EXCEPT !.transaction = transaction,
                                     !.pc = "done", !.ret = "None"])
         ELSE Goto(t, [req[t] EXCEPT
                  !.transaction = transaction,
                  !.return_date = now,
                  !.fine = ComputeFine(now, transaction.due_date),
                  !.days_overdue = DaysOverdue(now, transaction.due_date),
                  !.pc = "return_update_txn"])
    /\ UNCHANGED <<books, users, transactions, now>>

ReturnFind(t) ==
    /\ Pc(t) = "return_find"
    /\ LET transaction == FindTxn(req[t].transaction_id) IN
         IF NotIssued(transaction)
         THEN Goto(t, [req[t] EXCEPT !.transaction = transaction,
                                     !.pc = "done", !.ret = "None"])
         ELSE Goto(t, [req[t] EXCEPT
                  !.transaction = transaction,
                  !.return_date = now,
                  !.fine = ComputeFine(now, transaction.due_date),
                  !.days_overdue = DaysOverdue(now, transaction.due_date),
                  !.pc = "return_update_txn"])
    /\ UNCHANGED <<books, users, transactions, now>>

\* ReturnUpdateTxn writing the fine and the return date but not the status.
ReturnUpdateTxnNoStatus(t) ==
    /\ Pc(t) = "return_update_txn"
    /\ transactions' = [transactions EXCEPT
           ![req[t].transaction_id].return_date = req[t].return_date,
           ![req[t].transaction_id].fine = req[t].fine]
    /\ Goto(t, [req[t] EXCEPT !.pc = "return_update_book", !.effects = {"entry"}])
    /\ UNCHANGED <<books, users, now>>

\* update_one({'_id': ..}, {'$set': {...}}): modified_count is 1 when the
\* document changes.  returned_to and updated_at (a timestamp of millisecond
\* resolution) are not part of the model: when every modelled field already
\* has the value written, modified_count is 1 or 0 as those two differ or not.
ReturnUpdateTxn(t) ==
    /\ Pc(t) = "return_update_txn"
    /\ LET id == req[t].transaction_id
           new == [transactions[id] EXCEPT !.return_date = req[t].return_date,
                                           !.status = "returned",
                                           !.fine = req[t].fine]
       IN /\ transactions' = [transactions EXCEPT ![id] = new]
          /\ \E modified \in (IF new = transactions[id] THEN {TRUE, FALSE} ELSE {TRUE}) :
                IF modified
                THEN Goto(t, [req[t] EXCEPT !.pc = "return_update_book",
                                            !.effects = {"entry"}])
                ELSE Return(t, "None")
    /\ UNCHANGED <<books, users, now>>

\* ReturnUpdateBook without the available_quantity increment.
ReturnUpdateBookNoInc(t) ==
    /\ Pc(t) = "return_update_book"
    /\ books' = books
    /\ Goto(t, [req[t] EXCEPT !.pc = "return_update_user",
                              !.effects = @ \cup {"book"}])
    /\ UNCHANGED <<users, transactions, now>>

ReturnUpdateBook(t) ==
    /\ Pc(t) = "return_update_book"
    /\ books' = [b \in DOMAIN books |->
                   IF b = req[t].transaction.book_id
                   THEN [books[b] EXCEPT !.available_quantity = @ + 1]
                   ELSE books[b]]
    /\ Goto(t, [req[t] EXCEPT !.pc = "return_update_user",
                              !.effects = @ \cup {"book"}])
    /\ UNCHANGED <<users, transactions, now>>

\* ReturnUpdateUser without the total_fines increment.
ReturnUpdateUserNoFines(t) ==
    /\ Pc(t) = "return_update_user"
    /\ users' = [u \in DOMAIN users |->
                   IF u = req[t].transaction.user_id
                   THEN [users[u] EXCEPT !.books_issued = @ - 1]
                   ELSE users[u]]
    /\ Goto(t, [req[t] EXCEPT !.pc = "done", !.ret = "ok",
                              !.effects = @ \cup {"user"}])
    /\ UNCHANGED <<books, transactions, now>>

ReturnUpdateUser(t) ==
    /\ Pc(t) = "return_update_user"
    /\ users' = [u \in DOMAIN users |->
                   IF u = req[t].transaction.user_id
                   THEN [users[u] EXCEPT !.books_issued = @ - 1,
                                         !.total_fines = @ + req[t].fine]
                   ELSE users[u]]
    /\ Goto(t, [req[t] EXCEPT !.pc = "done", !.ret = "ok",
                              !.effects = @ \cup {"user"}])
    /\ UNCHANGED <<books, transactions, now>>

\* ------------------------------------------------------------ Book.create_book
CreateRequest(t, isbn, title, quantity) ==
    /\ Pc(t) = "idle"
    /\ Cardinality(DOMAIN books) + PendingCreates < Cardinality(BookIds)
    /\ Goto(t, [IdleReq EXCEPT !.op = "create_book", !.pc = "create_find_isbn",
                               !.isbn = isbn, !.title = title, !.new_quantity = quantity])
    /\ UNCHANGED <<books, users, transactions, now>>

CreateFindIsbn(t) ==
    /\ Pc(t) = "create_find_isbn"
    /\ IF \E b \in DOMAIN books : books[b].isbn = req[t].isbn
       THEN Return(t, "None")
       ELSE Goto(t, [req[t] EXCEPT !.pc = "create_insert"])
    /\ UNCHANGED <<books, users, transactions, now>>

\* CreateInsert on a collection without the unique index on isbn.
CreateInsertNoIndex(t) ==
    /\ Pc(t) = "create_insert"
    /\ LET id == NewBookId IN
         /\ books' = [b \in DOMAIN books \cup {id} |->
                        IF b = id
                        THEN [isbn |-> req[t].isbn,
                              title |-> req[t].title,
                              quantity |-> req[t].new_quantity,
                              available_quantity |-> req[t].new_quantity,
                              is_active |-> TRUE, total_issued |-> 0]
                        ELSE books[b]]
         /\ Goto(t, [req[t] EXCEPT !.pc = "done", !.ret = "ok",
                                   !.inserted_id = id, !.effects = {"book"}])
    /\ UNCHANGED <<users, transactions, now>>

\* insert_one(book_data): db.books has a unique index on isbn, so an insert
\* of an isbn that a book already has raises DuplicateKeyError, which the
\* handler's `except Exception` turns into None.
CreateInsert(t) ==
    /\ Pc(t) = "create_insert"
    /\ IF \E b \in DOMAIN books : books[b].isbn = req[t].isbn
       THEN /\ Goto(t, [req[t] EXCEPT !.pc = "done", !.ret = "None",
                                      !.raised = TRUE])
            /\ UNCHANGED books
       ELSE LET id == NewBookId IN
              /\ books' = [b \in DOMAIN books \cup {id} |->
                             IF b = id
                             THEN [isbn |-> req[t].isbn,
                                   title |-> req[t].title,
                                   quantity |-> req[t].new_quantity,
                                   available_quantity |-> req[t].new_quantity,
                                   is_active |-> TRUE, total_issued |-> 0]
                             ELSE books[b]]
              /\ Goto(t, [req[t] EXCEPT !.pc = "done", !.ret = "ok",
                                        !.inserted_id = id, !.effects = {"book"}])
    /\ UNCHANGED <<users, transactions, now>>

\* ------------------------------------------------------- admin route edit_book
EditRequest(t, book_id, title, quantity) ==
    /\ Pc(t) = "idle"
    /\ Goto(t, [IdleReq EXCEPT !.op = "edit_book", !.pc = "edit_get_book",
                               !.book_id = book_id, !.title = title,
                               !.new_quantity = quantity])
    /\ UNCHANGED <<books, users, transactions, now>>

EditGetBook(t) ==
    /\ Pc(t) = "edit_get_book"
    /\ LET book == FindBook(req[t].book_id) IN
         IF ~book.found
         THEN Return(t, "None")
         ELSE Goto(t, [req[t] EXCEPT !.book = book, !.pc = "edit_update"])
    /\ UNCHANGED <<books, users, transactions, now>>

EditUpdate(t) ==
    /\ Pc(t) = "edit_update"
    /\ books' = [b \in DOMAIN books |->
                   IF b # req[t].book_id
                   THEN books[b]
                   ELSE IF req[t].new_quantity # Blank
                   THEN [books[b] EXCEPT
                           !.title = req[t].title,
                           !.quantity = req[t].new_quantity,
                           !.available_quantity =
                               EditedAvailable(req[t].book, req[t].new_quantity)]
                   ELSE [books[b] EXCEPT !.title = req[t].title]]
    /\ Goto(t, [req[t] EXCEPT !.pc = "done", !.ret = "ok", !.effects = {"book"}])
    /\ UNCHANGED <<users, transactions, now>>

\* ----------------------------------------------------- admin route delete_book
DeleteRequest(t, book_id) ==
    /\ Pc(t) = "idle"
    /\ Goto(t, [IdleReq EXCEPT !.op = "delete_book", !.pc = "delete_get_book",
                               !.book_id = book_id])
    /\ UNCHANGED <<books, users, transactions, now>>

DeleteGetBook(t) ==
    /\ Pc(t) = "delete_get_book"
    /\ LET book == FindBook(req[t].book_id) IN
         IF ~book.found
         THEN Return(t, "None")
         ELSE Goto(t, [req[t] EXCEPT !.book = book, !.pc = "delete_check_issued"])
    /\ UNCHANGED <<books, users, transactions, now>>

DeleteCheckIssued(t) ==
    /\ Pc(t) = "delete_check_issued"
    /\ \E issued_books \in IssuedPages :
          IF \E i \in issued_books : transactions[i].book_id = req[t].book_id
          THEN Return(t, "None")
          ELSE Goto(t, [req[t] EXCEPT !.pc = "delete_update"])
    /\ UNCHANGED <<books, users, transactions, now>>

DeleteUpdate(t) ==
    /\ Pc(t) = "delete_update"
    /\ books' = [b \in DOMAIN books |->
                   IF b = req[t].book_id
                   THEN [books[b] EXCEPT !.is_active = FALSE]
                   ELSE books[b]]
    /\ Goto(t, [req[t] EXCEPT !.pc = "done", !.ret = "ok", !.effects = {"book"}])
    /\ UNCHANGED <<users, transactions, now>>

\* -------------------------------------------------- User.toggle_active_status
ToggleRequest(t, user_id) ==
    /\ Pc(t) = "idle"
    /\ Goto(t, [IdleReq EXCEPT !.op = "toggle_active_status", !.pc = "toggle_find",
                               !.user_id = user_id])
    /\ UNCHANGED <<books, users, transactions, now>>

ToggleFind(t) ==
    /\ Pc(t) = "toggle_find"
    /\ IF req[t].user_id \notin DOMAIN users
       THEN Return(t, "None")
       ELSE Goto(t, [req[t] EXCEPT !.new_status = ~users[req[t].user_id].is_active,
                                   !.pc = "toggle_update"])
    /\ UNCHANGED <<books, users, transactions, now>>

ToggleUpdate(t) ==
    /\ Pc(t) = "toggle_update"
    /\ users' = [u \in DOMAIN users |->
                   IF u = req[t].user_id
                   THEN [users[u] EXCEPT !.is_active = req[t].new_status]
                   ELSE users[u]]
    /\ Goto(t, [req[t] EXCEPT !.pc = "done", !.ret = "ok", !.effects = {"user"}])
    /\ UNCHANGED <<books, transactions, now>>

\* ------------------------------------------- Transaction.get_user_transactions
UserTransactionsRequest(t, user_id, status) ==
    /\ Pc(t) = "idle"
    /\ Goto(t, [IdleReq EXCEPT !.op = "get_user_transactions",
                               !.pc = "user_transactions_find",
                               !.user_id = user_id, !.status = status])
    /\ UNCHANGED <<books, users, transactions, now>>

GetUserTransactions(t) ==
    /\ Pc(t) = "user_transactions_find"
    /\ \E page \in NewestFirst(UserQueryIds(req[t].user_id, req[t].status),
                                TRANSACTIONS_LIMIT) :
          Goto(t, [req[t] EXCEPT
              !.pc = "done", !.ret = "ok",
              !.result = [k \in DOMAIN page |->
                            [id |-> page[k], trans |-> transactions[page[k]],
                             book |-> JoinBook(transactions[page[k]].book_id),
                             current_fine |-> CurrentFine(transactions[page[k]], now),
                             days_overdue |-> Blank]]])
    /\ UNCHANGED <<books, users, transactions, now>>

\* -------------------------------------------- Transaction.get_all_transactions
AllTransactionsRequest(t, status) ==
    /\ Pc(t) = "idle"
    /\ Goto(t, [IdleReq EXCEPT !.op = "get_all_transactions",
                               !.pc = "all_transactions_find",
                               !.status = status])
    /\ UNCHANGED <<books, users, transactions, now>>

GetAllTransactions(t) ==
    /\ Pc(t) = "all_transactions_find"
    /\ \E page \in NewestFirst(AllQueryIds(req[t].status), TRANSACTIONS_LIMIT) :
          Goto(t, [req[t] EXCEPT
              !.pc = "done", !.ret = "ok",
              !.result = [k \in DOMAIN page |->
                            [id |-> page[k], trans |-> transactions[page[k]],
                             book |-> JoinBook(transactions[page[k]].book_id),
                             current_fine |-> CurrentFine(transactions[page[k]], now),
                             days_overdue |-> Blank]]])
    /\ UNCHANGED <<books, users, transactions, now>>

\* ---------------------------------------- Transaction.get_overdue_transactions
OverdueRequest(t) ==
    /\ Pc(t) = "idle"
    /\ Goto(t, [IdleReq EXCEPT !.op = "get_overdue_transactions",
                               !.pc = "overdue_find"])
    /\ UNCHANGED <<books, users, transactions, now>>

\* GetOverdueTransactions saving the fine it computed on the stored entry.
GetOverdueTransactionsStoring(t) ==
    /\ Pc(t) = "overdue_find"
    /\ \E page \in DueFirst(OverdueIds(now)) :
          /\ Goto(t, [req[t] EXCEPT
                !.pc = "done", !.ret = "ok",
                !.result = [k \in DOMAIN page |->
                              [id |-> page[k], trans |-> transactions[page[k]],
                               book |-> JoinBook(transactions[page[k]].book_id),
                               current_fine |-> OverdueFine(transactions[page[k]], now),
                               days_overdue |-> OverdueDays(transactions[page[k]], now)]]])
          /\ transactions' = [i \in DOMAIN transactions |->
                                IF i \in OverdueIds(now)
                                THEN [transactions[i] EXCEPT
                                        !.fine = OverdueFine(transactions[i], now)]
                                ELSE transactions[i]]
    /\ UNCHANGED <<books, users, now>>

GetOverdueTransactions(t) ==
    /\ Pc(t) = "overdue_find"
    /\ \E page \in DueFirst(OverdueIds(now)) :
          Goto(t, [req[t] EXCEPT
              !.pc = "done", !.ret = "ok",
              !.result = [k \in DOMAIN page |->
                            [id |-> page[k], trans |-> transactions[page[k]],
                             book |-> JoinBook(transactions[page[k]].book_id),
                             current_fine |-> OverdueFine(transactions[page[k]], now),
                             days_overdue |-> OverdueDays(transactions[page[k]], now)]]])
    /\ UNCHANGED <<books, users, transactions, now>>

\* --------------------------------------------- Transaction.count_transactions
CountRequest(t, user_id, status) ==
    /\ Pc(t) = "idle"
    /\ Goto(t, [IdleReq EXCEPT !.op = "count_transactions", !.pc = "count_find",
                               !.user_id = user_id, !.status = status])
    /\ UNCHANGED <<books, users, transactions, now>>

CountTransactions(t) ==
    /\ Pc(t) = "count_find"
    /\ Goto(t, [req[t] EXCEPT
          !.pc = "done", !.ret = "ok",
          !.result = <<CountQuery(req[t].user_id, req[t].status)>>])
    /\ UNCHANGED <<books, users, transactions, now>>

\* --------------------------------------------------- Book.get_available_books
AvailableBooksRequest(t) ==
    /\ Pc(t) = "idle"
    /\ Goto(t, [IdleReq EXCEPT !.op = "get_available_books",
                               !.pc = "available_find"])
    /\ UNCHANGED <<books, users, transactions, now>>

GetAvailableBooks(t) ==
    /\ Pc(t) = "available_find"
    /\ \E page \in TitleFirst(AvailableIds, AVAILABLE_LIMIT) :
          Goto(t, [req[t] EXCEPT
              !.pc = "done", !.ret = "ok",
              !.result = [k \in DOMAIN page |->
                            [id |-> page[k], book |-> books[page[k]]]]])
    /\ UNCHANGED <<books, users, transactions, now>>

\* ------------------------------------------------------------- the environment
\* StorageFailure with the exception leaving the handler uncaught.
StorageFailureEscapes(t) ==
    /\ Pc(t) \notin {"idle", "done", "crashed"}
    /\ Goto(t, [req[t] EXCEPT !.pc = "crashed", !.raised = TRUE])
    /\ UNCHANGED <<books, users, transactions, now>>

\* A pymongo call raises (connection lost, server error): the handler's
\* `except Exception` returns None (False) with the writes made so far kept.
StorageFailure(t) ==
    /\ Pc(t) \notin {"idle", "done"}
    /\ Goto(t, [req[t] EXCEPT !.pc = "done", !.ret = "None", !.raised = TRUE])
    /\ UNCHANGED <<books, users, transactions, now>>

\* The handler has returned and the thread takes the next request.
Respond(t) ==
    /\ Pc(t) = "done"
    /\ Goto(t, IdleReq)
    /\ UNCHANGED <<books, users, transactions, now>>

\* Time passes between two database calls.
AdvanceClock ==
    /\ \E i \in Instants : i > now /\ now' = i
    /\ UNCHANGED <<books, users, transactions, req>>

\* ---------------------------------------------------------------------- init
\* A document of db.users as create_user inserts it.
NewUser == [role |-> "user", is_active |-> TRUE, books_issued |-> 0, total_fines |-> 0]

\* A document of db.books as create_book inserts it.
NewBook(isbn, title, quantity) ==
    [isbn |-> isbn, title |-> title, quantity |-> quantity, available_quantity |-> quantity,
     is_active |-> TRUE, total_issued |-> 0]

\* The lending core: one member and one catalogued book, two worker threads
\* that issue and return, and storage failures.
Init ==
    /\ \E q \in 1..MaxQuantity : books = [b \in {1} |-> NewBook("isbn-a", "title-a", q)]
    /\ users = [u \in {1} |-> NewUser]
    /\ transactions = <<>>
    /\ now = 0
    /\ req = [t \in Threads |-> IdleReq]

Next ==
    \E t \in Threads :
        \/ \E u \in {1, NoSuchId}, b \in {1} : IssueRequest(t, u, b, MaxTxns)
        \/ IssueFindBook(t)
        \/ IssueFindUser(t)
        \/ IssueCount(t)
        \/ IssueInsert(t)
        \/ IssueUpdateBook(t)
        \/ IssueUpdateUser(t)
        \/ \E id \in DOMAIN transactions \cup {NoSuchId} : ReturnRequest(t, id)
        \/ ReturnFind(t)
        \/ ReturnUpdateTxn(t)
        \/ ReturnUpdateBook(t)
        \/ ReturnUpdateUser(t)
        \/ StorageFailure(t)
        \/ Respond(t)

Spec == Init /\ [][Next]_vars

\* The catalogue and the ledger under one worker thread, no call failing:
\* requests are handled one after the other, from an empty catalogue.
InitAdmin ==
    /\ books = <<>>
    /\ users = [u \in {1} |-> NewUser]
    /\ transactions = <<>>
    /\ now = 0
    /\ req = [t \in Threads |-> IdleReq]

NextAdmin ==
    \E t \in {1} :
        \/ \E i \in Isbns, q \in 1..MaxQuantity : CreateRequest(t, i, "title-a", q)
        \/ CreateFindIsbn(t)
        \/ CreateInsert(t)
        \/ \E u \in {1}, b \in BookIds : IssueRequest(t, u, b, MaxTxns)
        \/ IssueFindBook(t)
        \/ IssueFindUser(t)
        \/ IssueCount(t)
        \/ IssueInsert(t)
        \/ IssueUpdateBook(t)
        \/ IssueUpdateUser(t)
        \/ \E id \in DOMAIN transactions : ReturnRequest(t, id)
        \/ ReturnFind(t)
        \/ ReturnUpdateTxn(t)
        \/ ReturnUpdateBook(t)
        \/ ReturnUpdateUser(t)
        \/ \E b \in BookIds, q \in (0..MaxQuantity) \cup {Blank} : EditRequest(t, b, "title-a", q)
        \/ EditGetBook(t)
        \/ EditUpdate(t)
        \/ \E b \in BookIds : DeleteRequest(t, b)
        \/ DeleteGetBook(t)
        \/ DeleteCheckIssued(t)
        \/ DeleteUpdate(t)
        \/ \E u \in {1, NoSuchId} : ToggleRequest(t, u)
        \/ ToggleFind(t)
        \/ ToggleUpdate(t)
        \/ Respond(t)

SpecAdmin == InitAdmin /\ [][NextAdmin]_vars

\* Races up to the borrow limit: one member and two books of MaxTxnsLimit
\* copies (the sample catalogue holds books of 4 to 10 copies), two worker
\* threads that issue either book and return the oldest entry, no call
\* failing.
InitLimit ==
    /\ books = [b \in BookIds |-> NewBook(IF b = 1 THEN "isbn-a" ELSE "isbn-b", "title-a",
                                          MaxTxnsLimit)]
    /\ users = [u \in {1} |-> NewUser]
    /\ transactions = <<>>
    /\ now = 0
    /\ req = [t \in Threads |-> IdleReq]

NextLimit ==
    \E t \in Threads :
        \/ \E b \in BookIds : IssueRequest(t, 1, b, MaxTxnsLimit)
        \/ IssueFindBook(t)
        \/ IssueFindUser(t)
        \/ IssueCount(t)
        \/ IssueInsert(t)
        \/ IssueUpdateBook(t)
        \/ IssueUpdateUser(t)
        \/ \E id \in DOMAIN transactions \cap {1} : ReturnRequest(t, id)
        \/ ReturnFind(t)
        \/ ReturnUpdateTxn(t)
        \/ ReturnUpdateBook(t)
        \/ ReturnUpdateUser(t)
        \/ Respond(t)

SpecLimit == InitLimit /\ [][NextLimit]_vars

\* Fines: one member and one book, requests handled one after the other while
\* the clock advances.
InitFines ==
    /\ \E q \in 1..MaxQuantity : books = [b \in {1} |-> NewBook("isbn-a", "title-a", q)]
    /\ users = [u \in {1} |-> NewUser]
    /\ transactions = <<>>
    /\ now = 0
    /\ req = [t \in Threads |-> IdleReq]

NextFines ==
    \/ \E t \in {1} :
        \/ IssueRequest(t, 1, 1, MaxTxnsFines)
        \/ IssueFindBook(t)
        \/ IssueFindUser(t)
        \/ IssueCount(t)
        \/ IssueInsert(t)
        \/ IssueUpdateBook(t)
        \/ IssueUpdateUser(t)
        \/ \E id \in DOMAIN transactions \cup {NoSuchId} : ReturnRequest(t, id)
        \/ ReturnFind(t)
        \/ ReturnUpdateTxn(t)
        \/ ReturnUpdateBook(t)
        \/ ReturnUpdateUser(t)
        \/ Respond(t)
    \/ AdvanceClock

SpecFines == InitFines /\ [][NextFines]_vars

\* Two threads, one book, one member and the clock: issue_book and return_book
\* calls interleave step by step while time passes between the steps.
NextReturns ==
    \/ \E t \in Threads :
        \/ IssueRequest(t, 1, 1, MaxTxnsFines)
        \/ IssueFindBook(t)
        \/ IssueFindUser(t)
        \/ IssueCount(t)
        \/ IssueInsert(t)
        \/ IssueUpdateBook(t)
        \/ IssueUpdateUser(t)
        \/ \E id \in DOMAIN transactions : ReturnRequest(t, id)
        \/ ReturnFind(t)
        \/ ReturnUpdateTxn(t)
        \/ ReturnUpdateBook(t)
        \/ ReturnUpdateUser(t)
        \/ Respond(t)
    \/ AdvanceClock

SpecReturns == InitFines /\ [][NextReturns]_vars

\* The next database call of the issue_book or return_book that thread t runs.
HandlerStep(t) ==
    \/ IssueFindBook(t)
    \/ IssueFindUser(t)
    \/ IssueCount(t)
    \/ IssueInsert(t)
    \/ IssueUpdateBook(t)
    \/ IssueUpdateUser(t)
    \/ ReturnFind(t)
    \/ ReturnUpdateTxn(t)
    \/ ReturnUpdateBook(t)
    \/ ReturnUpdateUser(t)

\* Two threads issue and return with storage failures; a thread inside a
\* handler is scheduled again and again (the handlers take no lock and wait
\* for nothing but the database call they are in), requests and failures may
\* or may not come.
NextLive ==
    \E t \in Threads :
        \/ \E u \in {1, NoSuchId} : IssueRequest(t, u, 1, MaxTxnsFines)
        \/ \E id \in DOMAIN transactions \cup {NoSuchId} : ReturnRequest(t, id)
        \/ HandlerStep(t)
        \/ StorageFailure(t)
        \/ Respond(t)

SpecLive ==
    /\ Init
    /\ [][NextLive]_vars
    /\ \A t \in Threads : WF_vars(HandlerStep(t))

\* Two threads take issue forms, complete or with a field missing, and
\* returns.
NextForm ==
    \E t \in Threads :
        \/ \E u \in {1, Blank}, b \in {1, Blank} : IssueFormPost(t, u, b, MaxTxnsFines)
        \/ IssueValidate(t)
        \/ \E id \in DOMAIN transactions : ReturnRequest(t, id)
        \/ HandlerStep(t)
        \/ Respond(t)

SpecForm == Init /\ [][NextForm]_vars

\* Two members and two books under one worker thread: the books are issued
\* and returned, their titles are edited, and the members list their entries.
\* The find and the find_one calls that join each entry with its book are
\* one step: no other request runs between them here.
UserIds == {1, 2}

InitPeople ==
    /\ books = [b \in BookIds |-> NewBook(IF b = 1 THEN "isbn-a" ELSE "isbn-b",
                                          "title-a", 1)]
    /\ users = [u \in UserIds |-> NewUser]
    /\ transactions = <<>>
    /\ now = 0
    /\ req = [t \in Threads |-> IdleReq]

NextPeople ==
    \E t \in {1} :
        \/ \E u \in UserIds, b \in BookIds : IssueRequest(t, u, b, MaxTxns)
        \/ \E id \in DOMAIN transactions : ReturnRequest(t, id)
        \/ HandlerStep(t)
        \/ \E b \in BookIds, title \in Titles : EditRequest(t, b, title, Blank)
        \/ EditGetBook(t)
        \/ EditUpdate(t)
        \/ \E u \in UserIds, status \in StatusFilters :
              UserTransactionsRequest(t, u, status)
        \/ GetUserTransactions(t)
        \/ Respond(t)

SpecPeople == InitPeople /\ [][NextPeople]_vars

\* Two worker threads add books to an empty catalogue.
NextCreate ==
    \E t \in Threads :
        \/ \E i \in Isbns, title \in Titles, q \in 1..MaxQuantity :
              CreateRequest(t, i, title, q)
        \/ CreateFindIsbn(t)
        \/ CreateInsert(t)
        \/ Respond(t)

SpecCreate == InitAdmin /\ [][NextCreate]_vars

\* Two worker threads: the book's quantity is edited while the book is
\* issued and returned, no call failing.
NextEditRace ==
    \E t \in Threads :
        \/ \E q \in 0..MaxQuantity : EditRequest(t, 1, "title-a", q)
        \/ EditGetBook(t)
        \/ EditUpdate(t)
        \/ IssueRequest(t, 1, 1, MaxTxnsFines)
        \/ \E id \in DOMAIN transactions : ReturnRequest(t, id)
        \/ HandlerStep(t)
        \/ Respond(t)

SpecEditRace == Init /\ [][NextEditRace]_vars

\* A busy library: TRANSACTIONS_LIMIT + 1 loans are open.  Member 1 borrowed
\* the only copy of book 1 first; after that the members borrowed the
\* TRANSACTIONS_LIMIT copies of book 2, four each, none above
\* MAX_BOOKS_PER_USER.
BusyLedger ==
    [i \in 1..(TRANSACTIONS_LIMIT + 1) |->
        IF i = 1
        THEN [user_id |-> 1, book_id |-> 1, issue_date |-> 0,
              due_date |-> LoanTicks,
              return_date |-> NoDate, status |-> "issued", fine |-> 0]
        ELSE [user_id |-> ((i - 2) \div (MAX_BOOKS_PER_USER - 1)) + 1,
              book_id |-> 2, issue_date |-> 1,
              due_date |-> 1 + LoanTicks,
              return_date |-> NoDate, status |-> "issued", fine |-> 0]]

BusyMembers == {BusyLedger[i].user_id : i \in DOMAIN BusyLedger}

InitDelete ==
    /\ books = [b \in {1, 2} |->
                  IF b = 1
                  THEN [NewBook("isbn-a", "title-a", 1) EXCEPT
                           !.available_quantity = 0, !.total_issued = 1]
                  ELSE [NewBook("isbn-b", "title-b", TRANSACTIONS_LIMIT) EXCEPT
                           !.available_quantity = 0,
                           !.total_issued = TRANSACTIONS_LIMIT]]
    /\ users = [u \in BusyMembers |->
                  [NewUser EXCEPT !.books_issued =
                      Cardinality({i \in DOMAIN BusyLedger :
                                      BusyLedger[i].user_id = u})]]
    /\ transactions = BusyLedger
    /\ now = 1
    /\ req = [t \in Threads |-> IdleReq]

\* The admin deletes books and takes back the three oldest loans, one request
\* after the other.
NextDelete ==
    \E t \in {1} :
        \/ \E b \in BookIds : DeleteRequest(t, b)
        \/ DeleteGetBook(t)
        \/ DeleteCheckIssued(t)
        \/ DeleteUpdate(t)
        \/ \E id \in {1, 2, 3} : ReturnRequest(t, id)
        \/ ReturnFind(t)
        \/ ReturnUpdateTxn(t)
        \/ ReturnUpdateBook(t)
        \/ ReturnUpdateUser(t)
        \/ Respond(t)

SpecDelete == InitDelete /\ [][NextDelete]_vars

\* Time passes, on the finer clock of SpecQueries.
AdvanceQueryClock ==
    /\ \E i \in QueryInstants : i > now /\ now' = i
    /\ UNCHANGED <<books, users, transactions, req>>

\* One thread issues, returns and runs the three listing queries while time
\* passes.
NextQueries ==
    \/ \E t \in {1} :
        \/ IssueRequest(t, 1, 1, MaxTxns)
        \/ IssueFindBook(t)
        \/ IssueFindUser(t)
        \/ IssueCount(t)
        \/ IssueInsert(t)
        \/ IssueUpdateBook(t)
        \/ IssueUpdateUser(t)
        \/ \E id \in DOMAIN transactions : ReturnRequest(t, id)
        \/ ReturnFind(t)
        \/ ReturnUpdateTxn(t)
        \/ ReturnUpdateBook(t)
        \/ ReturnUpdateUser(t)
        \/ \E status \in StatusFilters : UserTransactionsRequest(t, 1, status)
        \/ GetUserTransactions(t)
        \/ \E status \in StatusFilters : AllTransactionsRequest(t, status)
        \/ GetAllTransactions(t)
        \/ OverdueRequest(t)
        \/ GetOverdueTransactions(t)
        \/ Respond(t)
    \/ AdvanceQueryClock

SpecQueries == InitFines /\ [][NextQueries]_vars

\* Thread 1 issues and returns while thread 2 runs the read-only queries and
\* time passes.
NextReadOnly ==
    \/ \E t \in {1} :
        \/ IssueRequest(t, 1, 1, MaxTxnsFines)
        \/ \E id \in DOMAIN transactions : ReturnRequest(t, id)
        \/ HandlerStep(t)
        \/ Respond(t)
    \/ \E t \in {2} :
        \/ UserTransactionsRequest(t, 1, "")
        \/ GetUserTransactions(t)
        \/ AllTransactionsRequest(t, "")
        \/ GetAllTransactions(t)
        \/ OverdueRequest(t)
        \/ GetOverdueTransactions(t)
        \/ CountRequest(t, NoSuchId, "")
        \/ CountRequest(t, 1, "issued")
        \/ CountTransactions(t)
        \/ AvailableBooksRequest(t)
        \/ GetAvailableBooks(t)
        \/ Respond(t)
    \/ AdvanceQueryClock

SpecReadOnly == InitFines /\ [][NextReadOnly]_vars

\* ------------------------------------------------------------------- claims
\* No handler is running: the state between completed operations.
Quiescent == \A t \in Threads : Pc(t) = "idle"

\* Thread t has finished an issue_book call that no exception cut short.
IssueDone(t) ==
    req[t].op = "issue_book" /\ Pc(t) = "done" /\ ~req[t].raised

ReturnDone(t) ==
    req[t].op = "return_book" /\ Pc(t) = "done" /\ ~req[t].raised

NeverReturned == \A i \in DOMAIN transactions : transactions[i].status = "issued"

\* C1: between completed operations (create_book, issue_book, return_book,
\* edit_book, delete_book in any order) every book has
\* 0 <= available_quantity <= quantity.
C1_AvailableWithinQuantity ==
    Quiescent =>
        \A b \in DOMAIN books :
            /\ 0 <= books[b].available_quantity
            /\ books[b].available_quantity <= books[b].quantity

\* C2: two issue_book calls for the same book that both read
\* available_quantity = 1 (nothing was returned meanwhile, so neither read
\* follows the other's decrement) and pass the user checks: exactly one
\* succeeds and available_quantity ends at 0.
C2_LastCopyOneWinner ==
    ( /\ IssueDone(1) /\ IssueDone(2)
      /\ req[1].book_id = req[2].book_id
      /\ req[1].book.found /\ req[1].book.available_quantity = 1
      /\ req[2].book.found /\ req[2].book.available_quantity = 1
      /\ req[1].user_id \in DOMAIN users /\ req[2].user_id \in DOMAIN users
      /\ NeverReturned )
    => /\ (req[1].ret = "ok") # (req[2].ret = "ok")
       /\ books[req[1].book_id].available_quantity = 0

\* C3: in every reachable state every user has at most MAX_BOOKS_PER_USER
\* ledger entries with status 'issued'.
C3_AtMostMaxIssued ==
    \A u \in DOMAIN users : CountIssued(u) <= MAX_BOOKS_PER_USER

\* C4: two issue_book calls for the same user on different books that both
\* counted MAX_BOOKS_PER_USER - 1 open entries (nothing was returned
\* meanwhile, so neither count follows the other's insert): at most one
\* succeeds.
C4_LimitOneWinner ==
    ( /\ IssueDone(1) /\ IssueDone(2)
      /\ req[1].user_id = req[2].user_id
      /\ req[1].book_id # req[2].book_id
      /\ req[1].current_issued = MAX_BOOKS_PER_USER - 1
      /\ req[2].current_issued = MAX_BOOKS_PER_USER - 1
      /\ NeverReturned )
    => ~(req[1].ret = "ok" /\ req[2].ret = "ok")

\* C5: when issue_book has finished, by a return or by an exception at any
\* of its calls, it has applied all three of its writes (the entry, the
\* book's counters, the user's counter) or none of them.
C5_IssueAllOrNothing ==
    \A t \in Threads :
        (req[t].op = "issue_book" /\ Pc(t) = "done")
        => req[t].effects \in {{}, {"entry", "book", "user"}}

\* C6: when return_book has finished, by a return or by an exception at any
\* of its calls, it has applied all three of its writes (the entry set to
\* 'returned', the book's available_quantity, the user's books_issued and
\* total_fines) or none of them.
C6_ReturnAllOrNothing ==
    \A t \in Threads :
        (req[t].op = "return_book" /\ Pc(t) = "done")
        => req[t].effects \in {{}, {"entry", "book", "user"}}

\* C7: between completed operations the stored books_issued of every user
\* equals the number of that user's ledger entries with status 'issued'.
C7_BooksIssuedIsCount ==
    Quiescent => \A u \in DOMAIN users : users[u].books_issued = CountIssued(u)

\* C8: two return_book calls for the same entry: at most one succeeds, and
\* the book's available_quantity and the user's counters are written by at
\* most one of them.
C8_ReturnOneWinner ==
    ( /\ ReturnDone(1) /\ ReturnDone(2)
      /\ req[1].transaction_id = req[2].transaction_id )
    => /\ ~(req[1].ret = "ok" /\ req[2].ret = "ok")
       /\ ~("book" \in req[1].effects /\ "book" \in req[2].effects)
       /\ ~("user" \in req[1].effects /\ "user" \in req[2].effects)

\* C9: the issue_book call that finds its book with available_quantity = 0
\* returns None at that step and writes nothing: the ledger, every book and
\* every user keep their values.
C9_IssueUnavailableFails ==
    [][\A t \in Threads :
         ( /\ Pc(t) = "issue_find_book"
           /\ req'[t].pc # "issue_find_book"
           /\ req[t].book_id \in DOMAIN books
           /\ books[req[t].book_id].available_quantity = 0 )
         => /\ req'[t].pc = "done"
            /\ req'[t].ret = "None"
            /\ req'[t].effects = {}
            /\ UNCHANGED <<books, users, transactions>>]_vars

C9_Witness ==
    \E t \in Threads :
        /\ IssueDone(t)
        /\ req[t].book.found
        /\ req[t].book.available_quantity = 0
        /\ req[t].ret = "None"
        /\ books[req[t].book_id].available_quantity = 0

\* C10: the issue_book call whose count finds MAX_BOOKS_PER_USER or more
\* open entries of the user returns None at that step and writes nothing:
\* no entry is created, and every book and every user keep their values.
C10_IssueAtLimitFails ==
    [][\A t \in Threads :
         ( /\ Pc(t) = "issue_count"
           /\ req'[t].pc # "issue_count"
           /\ CountIssued(req[t].user_id) >= MAX_BOOKS_PER_USER )
         => /\ req'[t].pc = "done"
            /\ req'[t].ret = "None"
            /\ req'[t].effects = {}
            /\ UNCHANGED <<books, users, transactions>>]_vars

C10_Witness ==
    \E t \in Threads :
        /\ IssueDone(t)
        /\ req[t].current_issued = MAX_BOOKS_PER_USER
        /\ req[t].ret = "None"
        /\ CountIssued(req[t].user_id) = MAX_BOOKS_PER_USER

\* C11: the issue_book call that finds its book soft-deleted (is_active =
\* False) returns None at that step, whatever the book's available_quantity,
\* and writes nothing.
C11_IssueInactiveBookFails ==
    [][\A t \in Threads :
         ( /\ Pc(t) = "issue_find_book"
           /\ req'[t].pc # "issue_find_book"
           /\ req[t].book_id \in DOMAIN books
           /\ ~books[req[t].book_id].is_active )
         => /\ req'[t].pc = "done"
            /\ req'[t].ret = "None"
            /\ UNCHANGED <<books, users, transactions>>]_vars

\* C12: the issue_book call that finds no user, or a user with is_active =
\* False, returns None at that step and writes nothing.
C12_IssueInactiveUserFails ==
    [][\A t \in Threads :
         ( /\ Pc(t) = "issue_find_user"
           /\ req'[t].pc # "issue_find_user"
           /\ \/ req[t].user_id \notin DOMAIN users
              \/ ~users[req[t].user_id].is_active )
         => /\ req'[t].pc = "done"
            /\ req'[t].ret = "None"
            /\ UNCHANGED <<books, users, transactions>>]_vars

\* C13: an issue_book call that passes its checks samples issue_date = now and
\* due_date = issue_date + 14 days, appends exactly one entry with status
\* 'issued', no return_date and fine 0, then lowers the book's
\* available_quantity by 1 and raises its total_issued by 1, then raises the
\* user's books_issued by 1, and returns the id of the entry it inserted.
C13_IssueEffects ==
    [][\A t \in Threads :
         /\ (Pc(t) = "issue_count" /\ req'[t].pc = "issue_insert")
            => /\ req'[t].issue_date = now
               /\ req'[t].due_date = now + 14 * TicksPerDay
               /\ UNCHANGED <<books, users, transactions>>
         /\ (Pc(t) = "issue_insert" /\ req'[t].pc # "issue_insert")
            => /\ req'[t].pc = "issue_update_book"
               /\ Len(transactions') = Len(transactions) + 1
               /\ SubSeq(transactions', 1, Len(transactions)) = transactions
               /\ req'[t].inserted_id = Len(transactions')
               /\ transactions'[Len(transactions')] =
                     [user_id |-> req[t].user_id, book_id |-> req[t].book_id,
                      issue_date |-> req[t].issue_date,
                      due_date |-> req[t].issue_date + 14 * TicksPerDay,
                      return_date |-> NoDate, status |-> "issued", fine |-> 0]
               /\ UNCHANGED <<books, users>>
         /\ (Pc(t) = "issue_update_book" /\ req'[t].pc # "issue_update_book")
            => /\ req'[t].pc = "issue_update_user"
               /\ books' = [books EXCEPT
                     ![req[t].book_id].available_quantity = @ - 1,
                     ![req[t].book_id].total_issued = @ + 1]
               /\ UNCHANGED <<users, transactions>>
         /\ (Pc(t) = "issue_update_user" /\ req'[t].pc # "issue_update_user")
            => /\ req'[t].pc = "done"
               /\ req'[t].ret = "ok"
               /\ req'[t].inserted_id = req[t].inserted_id
               /\ users' = [users EXCEPT ![req[t].user_id].books_issued = @ + 1]
               /\ UNCHANGED <<books, transactions>>]_vars

\* An issue_book call made after the clock has advanced has succeeded.
C13_Witness ==
    \E t \in Threads :
        /\ IssueDone(t)
        /\ req[t].ret = "ok"
        /\ req[t].effects = {"entry", "book", "user"}
        /\ transactions[req[t].inserted_id].status = "issued"
        /\ transactions[req[t].inserted_id].issue_date > 0

\* C14: a return_book call that finds its entry 'issued' samples return_date =
\* now and the fine, writes status 'returned', that return_date and that fine
\* to the entry, then raises the book's available_quantity by 1, then lowers
\* the user's books_issued by 1 and raises the user's total_fines by the fine.
C14_ReturnEffects ==
    [][\A t \in Threads :
         /\ (Pc(t) = "return_find" /\ req'[t].pc = "return_update_txn")
            => /\ req'[t].return_date = now
               /\ req'[t].fine =
                     ComputeFine(now, transactions[req[t].transaction_id].due_date)
               /\ UNCHANGED <<books, users, transactions>>
         /\ (Pc(t) = "return_update_txn" /\ req'[t].pc # "return_update_txn")
            => /\ req'[t].pc = "return_update_book"
               /\ transactions' = [transactions EXCEPT
                     ![req[t].transaction_id].status = "returned",
                     ![req[t].transaction_id].return_date = req[t].return_date,
                     ![req[t].transaction_id].fine = req[t].fine]
               /\ UNCHANGED <<books, users>>
         /\ (Pc(t) = "return_update_book" /\ req'[t].pc # "return_update_book")
            => /\ req'[t].pc = "return_update_user"
               /\ books' = [books EXCEPT
                     ![transactions[req[t].transaction_id].book_id].available_quantity
                         = @ + 1]
               /\ UNCHANGED <<users, transactions>>
         /\ (Pc(t) = "return_update_user" /\ req'[t].pc # "return_update_user")
            => /\ req'[t].pc = "done"
               /\ req'[t].ret = "ok"
               /\ users' = [users EXCEPT
                     ![transactions[req[t].transaction_id].user_id].books_issued
                         = @ - 1,
                     ![transactions[req[t].transaction_id].user_id].total_fines
                         = @ + transactions[req[t].transaction_id].fine]
               /\ UNCHANGED <<books, transactions>>]_vars

\* A return_book call has succeeded with a fine above 0.
C14_Witness ==
    \E t \in Threads :
        /\ ReturnDone(t)
        /\ req[t].ret = "ok"
        /\ req[t].effects = {"entry", "book", "user"}
        /\ transactions[req[t].transaction_id].status = "returned"
        /\ transactions[req[t].transaction_id].fine > 0
        /\ users[transactions[req[t].transaction_id].user_id].total_fines > 0

\* C15: the return_book call that finds no entry under its id, or an entry
\* whose status is not 'issued', returns None at that step and leaves books,
\* users and the ledger as they were.
C15_ReturnNotIssuedFails ==
    [][\A t \in Threads :
         ( /\ Pc(t) = "return_find"
           /\ req'[t].pc # "return_find"
           /\ \/ req[t].transaction_id \notin DOMAIN transactions
              \/ transactions[req[t].transaction_id].status # "issued" )
         => /\ req'[t].pc = "done"
            /\ req'[t].ret = "None"
            /\ req'[t].effects = {}
            /\ UNCHANGED <<books, users, transactions>>]_vars

\* A return_book call for an entry already 'returned' has ended with None,
\* no exception raised.
C15_Witness ==
    \E t \in Threads :
        /\ ReturnDone(t)
        /\ req[t].transaction.found
        /\ req[t].transaction.status = "returned"
        /\ req[t].ret = "None"
        /\ req[t].effects = {}

\* C16: an entry whose status is 'returned' is never written again: its
\* status, return_date and fine are the same in the next state.
C16_ReturnedIsFrozen ==
    [][\A i \in DOMAIN transactions :
         transactions[i].status = "returned"
         => /\ transactions'[i].status = "returned"
            /\ transactions'[i].return_date = transactions[i].return_date
            /\ transactions'[i].fine = transactions[i].fine]_vars

\* Entries of book b that are out on loan.
OpenOfBook(b) ==
    {i \in DOMAIN transactions :
        transactions[i].book_id = b /\ transactions[i].status = "issued"}

\* C17: when calls run one after another, a finished return_book leaves its
\* entry 'returned' with a fine >= 0 and a return_date, and the counters are
\* back where they were before the entry was issued: the book's
\* available_quantity is its quantity less the entries still out, the user's
\* books_issued is the number of the user's entries still out.
C17_RoundTrip ==
    \A t \in Threads :
        (ReturnDone(t) /\ req[t].ret = "ok")
        => LET e == transactions[req[t].transaction_id] IN
             /\ e.status = "returned"
             /\ e.return_date # NoDate
             /\ e.fine >= 0
             /\ books[e.book_id].available_quantity =
                   books[e.book_id].quantity - Cardinality(OpenOfBook(e.book_id))
             /\ users[e.user_id].books_issued = CountIssued(e.user_id)

\* The only entry has been issued and returned late: the book is back at its
\* full quantity and the user at no books.
C17_Witness ==
    \E t \in Threads :
        /\ ReturnDone(t)
        /\ req[t].ret = "ok"
        /\ transactions[req[t].transaction_id].fine > 0
        /\ books[1].available_quantity = books[1].quantity
        /\ users[1].books_issued = 0

\* C18: a finished return_book has charged 0 when its return_date is not after
\* the due date, and otherwise 5 for each whole day between the due date and
\* the return_date (15 at three days); the days_overdue it returns is that
\* number of whole days, and the fine stored in the entry is the fine charged.
C18_FineAtReturn ==
    \A t \in Threads :
        (ReturnDone(t) /\ req[t].ret = "ok")
        => LET e == transactions[req[t].transaction_id]
               late == e.return_date - e.due_date
           IN /\ e.fine = req[t].fine
              /\ late <= 0 => (req[t].fine = 0 /\ req[t].days_overdue = 0)
              /\ late > 0 =>
                    \E d \in 0..late :
                        /\ d * TicksPerDay <= late
                        /\ late < (d + 1) * TicksPerDay
                        /\ req[t].days_overdue = d
                        /\ req[t].fine = d * 5
              /\ late = 3 * TicksPerDay => req[t].fine = 15

\* An entry has been returned three days after its due date for a fine of 15.
C18_Witness ==
    \E t \in Threads :
        /\ ReturnDone(t)
        /\ req[t].ret = "ok"
        /\ transactions[req[t].transaction_id].return_date =
              transactions[req[t].transaction_id].due_date + 3 * TicksPerDay
        /\ transactions[req[t].transaction_id].fine = 15
        /\ req[t].days_overdue = 3

\* C19: for a book of quantity 1, between calls: an entry issued at day 0 is
\* due at day 14; while it is 'issued' the book's available_quantity is 0;
\* once it is 'returned' at day 14 + k its fine is k * 5 (30 at day 20), and
\* the book's available_quantity is 1 when no entry of the book is out.
C19_Scenario ==
    ( /\ \A t \in Threads : Pc(t) \in {"idle", "done"}
      /\ books[1].quantity = 1 )
    => \A i \in DOMAIN transactions :
         LET e == transactions[i] IN
           e.issue_date = 0
           => /\ e.due_date = 14 * TicksPerDay
              /\ e.status \in {"issued", "returned"}
              /\ e.status = "issued" => books[1].available_quantity = 0
              /\ e.status = "returned"
                 => /\ \A k \in 0..MaxLate :
                         e.return_date = (14 + k) * TicksPerDay => e.fine = k * 5
                    /\ e.return_date = 20 * TicksPerDay => e.fine = 30
                    /\ books[1].available_quantity = 1 - Cardinality(OpenOfBook(1))

\* The single copy was issued at day 0 and returned at day 20 for a fine of 30:
\* the copy is back on the shelf.
C19_Witness ==
    /\ Quiescent
    /\ books[1].quantity = 1
    /\ books[1].available_quantity = 1
    /\ Len(transactions) = 1
    /\ transactions[1].issue_date = 0
    /\ transactions[1].status = "returned"
    /\ transactions[1].return_date = 20 * TicksPerDay
    /\ transactions[1].fine = 30

\* C20: every entry whose status is 'issued' has stored fine 0 and no
\* return_date, however far past its due date the clock is.
C20_OpenEntryHasNoFine ==
    \A i \in DOMAIN transactions :
        transactions[i].status = "issued"
        => /\ transactions[i].fine = 0
           /\ transactions[i].return_date = NoDate

\* An entry is still 'issued' more than a day after its due date, with stored
\* fine 0, while its fine computed at query time is above 0.
C20_Witness ==
    \E i \in DOMAIN transactions :
        /\ transactions[i].status = "issued"
        /\ now > transactions[i].due_date
        /\ ComputeFine(now, transactions[i].due_date) > 0
        /\ transactions[i].fine = 0

\* Thread t runs the find of one of the three listing queries.
Listing(t) ==
    Pc(t) \in {"user_transactions_find", "all_transactions_find", "overdue_find"}

\* C21: the current_fine that get_user_transactions, get_all_transactions and
\* get_overdue_transactions put on an entry that is 'issued' is the fine
\* return_book computes for that entry at the same instant.
C21_OneFinePolicy ==
    [][\A t \in Threads :
         (Listing(t) /\ req'[t].pc = "done")
         => \A k \in DOMAIN req'[t].result :
              req'[t].result[k].trans.status = "issued"
              => req'[t].result[k].current_fine =
                    ComputeFine(now, req'[t].result[k].trans.due_date)]_vars

\* get_user_transactions has listed an open entry with a current fine above 0.
C21_Witness ==
    \E t \in Threads :
        /\ req[t].op = "get_user_transactions"
        /\ Pc(t) = "done"
        /\ \E k \in DOMAIN req[t].result :
              /\ req[t].result[k].trans.status = "issued"
              /\ req[t].result[k].current_fine > 0

\* C22: get_overdue_transactions lists each entry that is 'issued' with
\* due_date < now once, and no other entry, in ascending due_date, each with
\* days_overdue the whole days between due_date and now and current_fine =
\* days_overdue * 5.
C22_OverdueListing ==
    [][\A t \in Threads :
         (Pc(t) = "overdue_find" /\ req'[t].pc = "done")
         => LET res == req'[t].result IN
              /\ {res[k].id : k \in DOMAIN res} =
                    {i \in DOMAIN transactions :
                        /\ transactions[i].status = "issued"
                        /\ transactions[i].due_date < now}
              /\ \A j, k \in DOMAIN res :
                    /\ j # k => res[j].id # res[k].id
                    /\ j < k => res[j].trans.due_date <= res[k].trans.due_date
              /\ \A k \in DOMAIN res :
                    /\ res[k].trans = transactions[res[k].id]
                    /\ res[k].days_overdue * TicksPerDay <= now - res[k].trans.due_date
                    /\ now - res[k].trans.due_date < (res[k].days_overdue + 1) * TicksPerDay
                    /\ res[k].current_fine = res[k].days_overdue * 5]_vars

\* get_overdue_transactions has listed two entries of different due dates,
\* the second of them with a fine above 0.
C22_Witness ==
    \E t \in Threads :
        /\ req[t].op = "get_overdue_transactions"
        /\ Pc(t) = "done"
        /\ Len(req[t].result) = 2
        /\ req[t].result[1].trans.due_date < req[t].result[2].trans.due_date
        /\ req[t].result[2].current_fine > 0

\* C23: when requests run one after another, the write of edit_book with a
\* new quantity q' sets the book's quantity to q' and moves its
\* available_quantity by q' less the old quantity, so that quantity less
\* available_quantity is what it was; with no quantity in the form neither
\* field changes.
C23_EditKeepsLoans ==
    [][\A t \in Threads :
         (Pc(t) = "edit_update" /\ req'[t].pc # "edit_update")
         => LET b == req[t].book_id
                q == req[t].new_quantity
            IN /\ req'[t].pc = "done"
               /\ q # Blank =>
                    /\ books'[b].quantity = q
                    /\ books'[b].available_quantity - books[b].available_quantity
                          = q - books[b].quantity
                    /\ books'[b].quantity - books'[b].available_quantity
                          = books[b].quantity - books[b].available_quantity
               /\ q = Blank =>
                    /\ books'[b].quantity = books[b].quantity
                    /\ books'[b].available_quantity = books[b].available_quantity
               /\ \A other \in DOMAIN books \ {b} : books'[other] = books[other]
               /\ DOMAIN books' = DOMAIN books
               /\ UNCHANGED <<users, transactions>>]_vars

\* edit_book has raised the quantity of a book that has a copy on loan.
C23_Witness ==
    \E t \in Threads :
        /\ req[t].op = "edit_book"
        /\ Pc(t) = "done"
        /\ req[t].ret = "ok"
        /\ req[t].book.available_quantity < req[t].book.quantity
        /\ req[t].new_quantity > req[t].book.quantity
        /\ books[req[t].book_id].quantity = req[t].new_quantity
        /\ books[req[t].book_id].available_quantity < req[t].new_quantity

\* C24: no book is inactive while an entry with status 'issued' references
\* it: delete_book is refused for a book that is out on loan, however many
\* loans are open.
C24_NoDeleteWhileOnLoan ==
    \A b \in DOMAIN books : ~books[b].is_active => OpenOfBook(b) = {}

\* C25: a user's total_fines never decreases, and a step that changes it is
\* the last write of a return_book call that ends in success, for an entry of
\* that user that is 'returned', and adds the fine stored on that entry.
C25_TotalFinesGrowByFrozenFine ==
    [][\A u \in DOMAIN users :
         \/ users'[u].total_fines = users[u].total_fines
         \/ /\ users'[u].total_fines > users[u].total_fines
            /\ \E t \in Threads :
                  /\ Pc(t) = "return_update_user"
                  /\ req'[t].pc = "done"
                  /\ req'[t].ret = "ok"
                  /\ transactions[req[t].transaction_id].user_id = u
                  /\ transactions[req[t].transaction_id].status = "returned"
                  /\ users'[u].total_fines =
                        users[u].total_fines
                          + transactions[req[t].transaction_id].fine]_vars

\* Entries ever created for book b.
EntriesOfBook(b) == {i \in DOMAIN transactions : transactions[i].book_id = b}

\* C26: between calls, every book's total_issued is the number of ledger
\* entries ever created for the book.
C26_TotalIssuedCountsEntries ==
    Quiescent =>
        \A b \in DOMAIN books :
            books[b].total_issued = Cardinality(EntriesOfBook(b))

\* C27: the ledger only grows: every entry of one state is in the next state
\* under the same _id with the same user, book, issue_date and due_date.
C27_LedgerOnlyGrows ==
    [][/\ Len(transactions') >= Len(transactions)
       /\ \A i \in DOMAIN transactions :
             /\ transactions'[i].user_id = transactions[i].user_id
             /\ transactions'[i].book_id = transactions[i].book_id
             /\ transactions'[i].issue_date = transactions[i].issue_date
             /\ transactions'[i].due_date = transactions[i].due_date]_vars

\* The ledger holds a 'returned' entry followed by a later entry, and the
\* book of the first has since been edited or deleted.
C27_Witness ==
    /\ Len(transactions) = 2
    /\ transactions[1].status = "returned"
    /\ \/ ~books[transactions[1].book_id].is_active
       \/ books[transactions[1].book_id].quantity = 0

\* C28: two issue_book calls that fail at different checks, one at the book
\* check and one at a later check, return different failure values.
C28_FailuresToldApart ==
    \A t1, t2 \in Threads :
        ( /\ IssueDone(t1) /\ req[t1].ret # "ok"
          /\ IssueDone(t2) /\ req[t2].ret # "ok"
          /\ BookUnavailable(req[t1].book)
          /\ ~BookUnavailable(req[t2].book) )
        => req[t1].ret # req[t2].ret

\* C29: a call in which a database call raised has returned None to its
\* caller, and a thread whose handler has returned can take its next request.
C29_NoExceptionEscapes ==
    \A t \in Threads :
        /\ req[t].raised => (Pc(t) = "done" /\ req[t].ret = "None")
        /\ Pc(t) \in {"idle", "done"} \/ ENABLED (HandlerStep(t) \/ StorageFailure(t))
        /\ Pc(t) = "done" => ENABLED Respond(t)

\* A return_book call was cut short by an exception after it had written the
\* entry, and the other thread has since finished an issue_book.
C29_Witness ==
    \E t, other \in Threads :
        /\ req[t].op = "return_book"
        /\ req[t].raised
        /\ req[t].effects # {}
        /\ Pc(t) = "done"
        /\ IssueDone(other)
        /\ req[other].ret = "ok"

\* C30: every issue_book and return_book request that a thread has taken
\* ends, with success or with None.
C30_RequestsComplete ==
    \A t \in Threads : (Pc(t) # "idle") ~> (Pc(t) = "done")

\* Both threads are inside a handler at once, on the same entry.
C30_Witness ==
    /\ \A t \in Threads : Pc(t) \notin {"idle", "done"}
    /\ \E t1, t2 \in Threads :
          /\ t1 # t2
          /\ req[t1].op = "return_book"
          /\ req[t2].op = "return_book"
          /\ req[t1].transaction_id = req[t2].transaction_id

\* C31: an issue form with user_id or book_id missing is answered at the
\* validation step, before any database call of issue_book, and that step
\* changes neither books nor users nor the ledger.
C31_MissingFieldRejected ==
    [][\A t \in Threads :
         ( /\ Pc(t) = "issue_validate"
           /\ req'[t].pc # "issue_validate"
           /\ req[t].user_id = Blank \/ req[t].book_id = Blank )
         => /\ req'[t].pc = "done"
            /\ req'[t].ret = "invalid"
            /\ req'[t].effects = {}
            /\ UNCHANGED <<books, users, transactions>>]_vars

\* A form with the book missing has been rejected while the other thread was
\* inside issue_book.
C31_Witness ==
    \E t, other \in Threads :
        /\ req[t].op = "issue_book"
        /\ Pc(t) = "done"
        /\ req[t].book_id = Blank
        /\ req[t].user_id # Blank
        /\ req[t].ret = "invalid"
        /\ Pc(other) = "issue_update_book"

QueryOps ==
    {"get_user_transactions", "get_all_transactions", "get_overdue_transactions",
     "count_transactions", "get_available_books"}

\* C32: a step of a read-only query, its request and its find, leaves books,
\* users and the ledger as they are, whatever issue_book or return_book the
\* other thread is in the middle of.
C32_QueriesReadOnly ==
    [][\A t \in Threads :
         (req'[t] # req[t] /\ (req[t].op \in QueryOps \/ req'[t].op \in QueryOps))
         => UNCHANGED <<books, users, transactions>>]_vars

\* get_overdue_transactions has computed a fine above 0 for an entry whose
\* stored fine is 0, while the other thread is in the middle of a return_book.
C32_Witness ==
    \E t, other \in Threads :
        /\ req[t].op = "get_overdue_transactions"
        /\ Pc(t) = "done"
        /\ \E k \in DOMAIN req[t].result :
              /\ req[t].result[k].current_fine > 0
              /\ transactions[req[t].result[k].id].fine = 0
        /\ req[other].op = "return_book"
        /\ Pc(other) = "return_update_txn"

\* C33: get_user_transactions(user, status) lists only entries of that user,
\* all with the given status when one is given, each as the ledger holds it
\* and joined with its book as the catalogue holds it when the list is read;
\* editing a book leaves the stored entries as they are.
C33_UserListing ==
    [][\A t \in Threads :
         /\ ( Pc(t) = "user_transactions_find" /\ req'[t].pc = "done" )
            => \A k \in DOMAIN req'[t].result :
                 LET e == req'[t].result[k] IN
                   /\ e.id \in DOMAIN transactions
                   /\ e.trans = transactions[e.id]
                   /\ e.trans.user_id = req[t].user_id
                   /\ req[t].status # "" => e.trans.status = req[t].status
                   /\ e.book = books[e.trans.book_id]
         /\ ( Pc(t) = "edit_update" /\ req'[t].pc = "done" )
            => transactions' = transactions]_vars

\* A member's list of returned entries shows a book under the title it was
\* given after the issue, while the ledger also holds an entry of the other
\* member.
C33_Witness ==
    \E t \in Threads :
        /\ req[t].op = "get_user_transactions"
        /\ Pc(t) = "done"
        /\ req[t].status = "returned"
        /\ \E k \in DOMAIN req[t].result : req[t].result[k].book.title = "title-b"
        /\ \E i \in DOMAIN transactions : transactions[i].user_id # req[t].user_id

\* The book and the member that the issue_book or return_book of thread t is
\* about, and the entry a return_book is about.
TargetBook(t) ==
    IF req[t].op = "issue_book" THEN req[t].book_id
    ELSE IF req[t].transaction_id \in DOMAIN transactions
         THEN transactions[req[t].transaction_id].book_id
         ELSE NoSuchId

TargetUser(t) ==
    IF req[t].op = "issue_book" THEN req[t].user_id
    ELSE IF req[t].transaction_id \in DOMAIN transactions
         THEN transactions[req[t].transaction_id].user_id
         ELSE NoSuchId

\* C39: a step of issue_book(u, b) or of return_book(e) changes no book but
\* b, no member but u and no stored entry but e, adds at most the one entry
\* of u and b, and leaves every book's isbn, title, quantity and is_active
\* and every member's is_active and role as they are.
C39_OnlyTheTargets ==
    [][\A t \in Threads :
         ( req[t].op \in {"issue_book", "return_book"} /\ req'[t] # req[t] )
         => /\ DOMAIN books' = DOMAIN books
            /\ \A b \in DOMAIN books :
                 /\ b # TargetBook(t) => books'[b] = books[b]
                 /\ books'[b].isbn = books[b].isbn
                 /\ books'[b].title = books[b].title
                 /\ books'[b].quantity = books[b].quantity
                 /\ books'[b].is_active = books[b].is_active
            /\ DOMAIN users' = DOMAIN users
            /\ \A u \in DOMAIN users :
                 /\ u # TargetUser(t) => users'[u] = users[u]
                 /\ users'[u].is_active = users[u].is_active
                 /\ users'[u].role = users[u].role
            /\ \A i \in DOMAIN transactions :
                 /\ i \in DOMAIN transactions'
                 /\ transactions'[i] # transactions[i]
                    => req[t].op = "return_book" /\ i = req[t].transaction_id
            /\ \A i \in DOMAIN transactions' \ DOMAIN transactions :
                 /\ i = Len(transactions) + 1
                 /\ req[t].op = "issue_book"
                 /\ transactions'[i].user_id = req[t].user_id
                 /\ transactions'[i].book_id = req[t].book_id]_vars

\* A book has been issued to one member and then returned while the other
\* member holds the other book.
C39_Witness ==
    \E t \in Threads, i, j \in DOMAIN transactions :
        /\ ReturnDone(t)
        /\ req[t].ret = "ok"
        /\ req[t].transaction_id = i
        /\ transactions[i].status = "returned"
        /\ transactions[j].status = "issued"
        /\ transactions[j].user_id # transactions[i].user_id
        /\ transactions[j].book_id # transactions[i].book_id
        /\ users[transactions[j].user_id].books_issued = 1

\* C34: a create_book that finds, at its find_one or at its insert_one, a
\* book with its ISBN inserts nothing and returns None; after every step of
\* create_book calls, concurrent ones with one ISBN too, no two books share
\* an ISBN.
C34_IsbnUnique ==
    [][/\ \A t \in Threads :
            ( req[t].op = "create_book" /\ req'[t].pc = "done"
              /\ Pc(t) # "done"
              /\ \E b \in DOMAIN books : books[b].isbn = req[t].isbn )
            => /\ req'[t].ret = "None"
               /\ books' = books
       /\ \A b1, b2 \in DOMAIN books' :
            books'[b1].isbn = books'[b2].isbn => b1 = b2]_vars

\* Two create_book calls with one ISBN have run side by side: both found no
\* such book, one inserted it and the other one's insert was refused.
C34_Witness ==
    \E t, other \in Threads :
        /\ req[t].op = "create_book" /\ Pc(t) = "done"
        /\ req[t].ret = "None" /\ req[t].raised
        /\ req[other].op = "create_book" /\ Pc(other) = "done"
        /\ req[other].ret = "ok"
        /\ req[other].isbn = req[t].isbn
        /\ Cardinality({b \in DOMAIN books : books[b].isbn = req[t].isbn}) = 1

\* C35: conservation of copies: between completed operations, for every
\* book, available_quantity plus the number of 'issued' entries of the book
\* is quantity.
C35_CopiesConserved ==
    Quiescent =>
        \A b \in DOMAIN books :
            books[b].available_quantity + Cardinality(OpenOfBook(b))
                = books[b].quantity

\* The stored fines of the 'returned' entries of member u among the first n
\* entries of the ledger, added up.
RECURSIVE ReturnedFines(_, _)
ReturnedFines(u, n) ==
    IF n = 0 THEN 0
    ELSE ReturnedFines(u, n - 1)
         + ( IF transactions[n].user_id = u /\ transactions[n].status = "returned"
             THEN transactions[n].fine ELSE 0 )

\* C37: every member's total_fines is the sum of the stored fines of the
\* member's 'returned' entries, every stored fine is at least 0 and
\* books_issued is at least 0.
C37_FinesAddUp ==
    /\ \A u \in DOMAIN users :
          /\ Quiescent => users[u].total_fines = ReturnedFines(u, Len(transactions))
          /\ Quiescent => users[u].books_issued >= 0
    /\ \A i \in DOMAIN transactions : transactions[i].fine >= 0

\* C36: an issue_book or return_book that completes between edit_book's read
\* of the book and its write is not lost: the write moves available_quantity,
\* as the book holds it then, by the change of quantity.
C36_EditKeepsConcurrentLoans ==
    [][\A t \in Threads :
         ( Pc(t) = "edit_update" /\ req'[t].pc = "done" )
         => LET b == req[t].book_id IN
              books'[b].available_quantity - books[b].available_quantity
                  = books'[b].quantity - books[b].quantity]_vars

\* C38: return_book on an entry it finds 'issued' goes on to its writes,
\* whatever is_active of the book and of the member and whatever the book's
\* quantity are, and when it has returned the call has succeeded and the
\* entry is 'returned'.
C38_IssuedCanBeReturned ==
    [][\A t \in Threads :
         /\ ( /\ Pc(t) = "return_find"
              /\ req'[t].pc # "return_find"
              /\ req[t].transaction_id \in DOMAIN transactions
              /\ transactions[req[t].transaction_id].status = "issued" )
            => req'[t].pc = "return_update_txn"
         /\ ( /\ req'[t].op = "return_book"
              /\ req'[t].pc = "done"
              /\ req'[t].transaction.found
              /\ req'[t].transaction.status = "issued" )
            => /\ req'[t].ret = "ok"
               /\ transactions'[req'[t].transaction_id].status = "returned"]_vars

\* An entry has been returned whose book is soft-deleted and edited to
\* quantity 0 and whose member is deactivated.
C38_Witness ==
    \E t \in Threads :
        /\ ReturnDone(t)
        /\ req[t].ret = "ok"
        /\ req[t].transaction_id \in DOMAIN transactions
        /\ LET e == transactions[req[t].transaction_id] IN
             /\ e.status = "returned"
             /\ ~books[e.book_id].is_active
             /\ books[e.book_id].quantity = 0
             /\ ~users[e.user_id].is_active

\* C40: get_overdue_transactions lists an open entry whose due_date passed
\* less than one whole day ago with days_overdue 0 and current_fine 0, every
\* entry it lists has current_fine at least 0, and a return_book that reads
\* such an entry at that moment computes fine 0.
C40_FirstDayIsFree ==
    [][\A t \in Threads :
         /\ ( Pc(t) = "overdue_find" /\ req'[t].pc = "done" )
            => LET res == req'[t].result IN
                 /\ \A i \in DOMAIN transactions :
                      ( /\ transactions[i].status = "issued"
                        /\ transactions[i].due_date < now
                        /\ now - transactions[i].due_date < TicksPerDay )
                      => \E k \in DOMAIN res :
                            /\ res[k].id = i
                            /\ res[k].days_overdue = 0
                            /\ res[k].current_fine = 0
                 /\ \A k \in DOMAIN res : res[k].current_fine >= 0
         /\ ( /\ Pc(t) = "return_find"
              /\ req'[t].pc = "return_update_txn"
              /\ transactions[req[t].transaction_id].due_date < now
              /\ now - transactions[req[t].transaction_id].due_date < TicksPerDay )
            => req'[t].fine = 0]_vars

\* get_overdue_transactions has listed an entry less than a day after its
\* due_date, with days_overdue 0, next to an entry with a fine above 0.
C40_Witness ==
    \E t \in Threads :
        /\ req[t].op = "get_overdue_transactions"
        /\ Pc(t) = "done"
        /\ \E k \in DOMAIN req[t].result :
              /\ now - req[t].result[k].trans.due_date < TicksPerDay
              /\ req[t].result[k].days_overdue = 0
        /\ \E k \in DOMAIN req[t].result : req[t].result[k].current_fine > 0
====
